---- MODULE Spec2Model ----
(***************************************************************************)
(* w_kinavg (src/w_kinavg.py): averaging of weighted-ensemble rates with   *)
(* block-bootstrap confidence intervals, and their time evolution.         *)
(*                                                                         *)
(* Two specifications share the variables below.                           *)
(*   Spec    - one run of `w_kinavg trace` or `w_kinavg matrix`:           *)
(*             process_args, go(), the units handed to the work manager,   *)
(*             the workers completing them in any order, the as_completed  *)
(*             loops and the datasets written to the output file.          *)
(*   SpecCI  - one call of _calc_ci_block: the bootstrap blocks            *)
(*             (starts, stops) and the resampling loops.                   *)
(*   SpecRNG - the random draws of two _calc_ci_block units that run       *)
(*             concurrently in one worker process.                         *)
(*   SpecPare - one call of pare_basis_initial_states                      *)
(*             (src/src/wemd/states.py).                                   *)
(***************************************************************************)
EXTENDS Integers, Naturals, Sequences, FiniteSets, TLC

VARIABLES
    args,       \* the parsed command line and the attributes of the input files
    self,       \* attributes of the subcommand object set by process_args
    pc,         \* position of the main thread in process_args / go()
    futures,    \* `futures` list of go(): the units submitted, in submission order
    outcome,    \* per future: "pending", or the unit's return value / exception
    completed,  \* indices of the futures in the order their units completed
    nconsumed,  \* number of futures as_completed has yielded to go() so far
    evol,       \* the in-memory result arrays of go()
    file,       \* datasets of self.output_file
    ci          \* locals of one _calc_ci_block call (SpecCI); the generator of
                \* the module random and the draws of each unit (SpecRNG);
                \* arguments and result of pare_basis_initial_states (SpecPare)

vars == <<args, self, pc, futures, outcome, completed, nconsumed, evol, file, ci>>

runvars == <<args, self, pc, futures, outcome, completed, nconsumed, evol, file>>

-----------------------------------------------------------------------------
(* Bounds of the model *)

\* iter_start ranges over 0..MaxStart
MaxStart == 1
\* iter_stop - iter_start ranges over 1..MaxLen
MaxLen == 6
\* --step-iter ranges over 0..MaxStep (and "not given")
MaxStep == 3
\* nstates ranges over 1..MaxStates
MaxStates == 2
\* runs are explored when neither phase of go() submits more than MaxUnits units
MaxUnits == 4
\* _calc_ci_block is called with start_iter in 0..CIMaxStart,
CIMaxStart == 1
\* with stop_iter - start_iter in 0..CIMaxLen,
CIMaxLen == 3
\* with mcbs_correltime returning a value in 0..MaxCorrLen,
MaxCorrLen == 2
\* and with mcbs_nsets in 1..MaxSets
MaxSets == 3

-----------------------------------------------------------------------------
(* Python values *)

\* None, where the other values of the attribute are non-negative integers
PyNone == 0 - 1

Min(a, b) == IF a < b THEN a ELSE b
Max(a, b) == IF a > b THEN a ELSE b

\* A float is num/den with den = 4 (dyadic, so that the products with the small
\* integers of the model are exact in binary floating point), or NaN.
NaN == [num |-> 0, den |-> 0]
Frac(n) == [num |-> n, den |-> 4]
IsNaN(x) == x.den = 0

\* the values --window-frac (type=float) is given: 0, 0.25, 0.5, 1, 1.25, nan
WindowFracs == {Frac(0), Frac(1), Frac(2), Frac(4), Frac(5), NaN}

\* x <= 0 and x > 1 on floats: every comparison with NaN is False
FloatLeZero(x) == ~IsNaN(x) /\ x.num <= 0
FloatGtOne(x)  == ~IsNaN(x) /\ x.num > x.den

\* int(x * n) for a float x >= 0 and an integer n >= 0: truncation
IntOfProduct(x, n) == (x.num * n) \div x.den

\* len(range(start, stop, step)) for step > 0
RangeLen(start, stop, step) ==
    IF stop <= start THEN 0 ELSE (stop - start + step - 1) \div step

\* range(start, stop, step)[k] for the zero-based index k
RangeAt(start, step, k) == start + k * step

-----------------------------------------------------------------------------
(* KinAvgSubcommands.process_args, which the tool framework runs for the    *)
(* trace and for the matrix subcommand (AvgMatrixSubcommand.process_args     *)
(* only adds self.extrapolate to it)                                         *)

\* line 134-136: the default step gives about 10 blocks
DefaultIterStep(iter_start, iter_stop) == Max(1, (iter_stop - iter_start) \div 10)

IterStep(a) ==
    IF a.iter_step = PyNone THEN DefaultIterStep(a.iter_start, a.iter_stop)
                            ELSE a.iter_step

\* line 149: the condition under which process_args raises ValueError
WindowFracRejected(frac) == FloatLeZero(frac) \/ FloatGtOne(frac)

\* --alpha, --autocorrel-alpha and --nsets as they are given: a float or None,
\* an integer or None.  NoFloat is the None of a float option.
NoFloat == [num |-> 0, den |-> PyNone]

\* mclib.get_bssize(alpha), the default number of resamples: ten times the
\* least power of ten that is at least 1/alpha
GetBSSize(alpha) ==
    10 * (CHOOSE p \in {1, 10, 100, 1000} :
            /\ p * alpha.num >= alpha.den
            /\ \A q \in {1, 10, 100, 1000} : q * alpha.num >= alpha.den => p <= q)

\* line 144: self.mcbs_nsets = args.nsets if args.nsets else mclib.get_bssize(self.mcbs_alpha)
McbsNSets(nsets, alpha) ==
    IF nsets = PyNone \/ nsets = 0 THEN GetBSSize(alpha) ELSE nsets

\* line 143: self.mcbs_acalpha = args.acalpha if args.acalpha else self.mcbs_alpha
McbsACAlpha(acalpha, alpha) ==
    IF acalpha = NoFloat \/ (~IsNaN(acalpha) /\ acalpha.num = 0) THEN alpha ELSE acalpha

SelfUnset == [type |-> "unset", evolution_mode |-> "unset",
              evol_window_frac |-> NaN, iter_step |-> PyNone,
              mcbs_alpha |-> NaN, mcbs_acalpha |-> NaN, mcbs_nsets |-> PyNone]

ProcessArgs ==
    /\ pc = "process_args"
    /\ self' = [type |-> args.type, evolution_mode |-> args.evolution_mode,
                evol_window_frac |-> args.window_frac, iter_step |-> IterStep(args),
                mcbs_alpha |-> args.alpha,
                mcbs_acalpha |-> McbsACAlpha(args.acalpha, args.alpha),
                mcbs_nsets |-> McbsNSets(args.nsets, args.alpha)]
    /\ pc' = IF WindowFracRejected(args.window_frac) THEN "ValueError" ELSE "go"
    /\ UNCHANGED <<args, futures, outcome, completed, nconsumed, evol, file, ci>>

-----------------------------------------------------------------------------
(* Records, arrays and units *)

States(n) == 0 .. (n - 1)

\* variant of PairSeq: the diagonal pairs are not skipped
PairSeqAll(n) == [k \in 1 .. (n * n) |-> <<(k - 1) \div n, (k - 1) % n>>]

\* the (istate, jstate) pairs in the order of the nested loops
\*   for istate in xrange(nstates): for jstate in xrange(nstates):
\*       if istate == jstate: continue
PairSeq(n) ==
    SelectSeq([k \in 1 .. (n * n) |-> <<(k - 1) \div n, (k - 1) % n>>],
              LAMBDA p : p[1] # p[2])

\* The point estimate of quantity q for the pair (i, j) over the stored
\* iterations [s, e): a function of the stored data of that window alone, kept
\* as a term (b is the block size of the block-averaging estimate, else 0).
Estimate(q, i, j, s, e, b) == [q |-> q, i |-> i, j |-> j, s |-> s, e |-> e, b |-> b]

\* the fields of ci_dtype, as lines 214-221 name them
CIFields == {"iter_start", "iter_stop", "expected", "ci_lbound", "ci_ubound",
             "stdev", "variance", "corr_len"}

\* lines 524-525: the values of the tuple _calc_ci_block returns as its record,
\*   (start_iter, stop_iter, overall_avg_rates[...], synth_rates[lbi], synth_rates[ubi], ctime)
CalcCIBlockFields == {"iter_start", "iter_stop", "expected", "ci_lbound", "ci_ubound",
                      "corr_len"}

\* one element of a numpy.zeros(..., dtype=ci_dtype) array; `given` is the set
\* of fields for which a unit supplied a value
ZeroRecord == [iter_start |-> 0, iter_stop |-> 0,
               expected |-> Estimate("zero", 0, 0, 0, 0, 0), given |-> {},
               ci_lbound |-> 0, ci_ubound |-> 0, corr_len |-> 0]

\* a record of _eval_block (lines 166, 180, 190: start, stop, the values of
\* mcbs_ci_correl, then stdev and variance)
CIRecord(q, i, j, s, e, b) ==
    [iter_start |-> s, iter_stop |-> e, expected |-> Estimate(q, i, j, s, e, b),
     given |-> CIFields]

\* variant of BlockAvgBound: the bound is the block size
BlockAvgBoundOfBlockSize(blocksize) == blocksize

\* lines 219-220: results[idataset]['ci_lbound'][...] = 0, and the same for
\* 'ci_ubound', whatever the block size and the data
BlockAvgBound(blocksize) == 0

\* a record of _eval_block_avg, lines 214-221, for the block size b: the two
\* bounds and corr_len = blocksize are kept as numbers
BlockAvgRecord(q, i, j, s, e, b) ==
    [iter_start |-> s, iter_stop |-> e, expected |-> Estimate(q, i, j, s, e, b),
     given |-> CIFields,
     ci_lbound |-> BlockAvgBound(b), ci_ubound |-> BlockAvgBound(b), corr_len |-> b]

\* the record of _calc_ci_block, stored as go() stores it: field by field
CalcCIBlockRecord(q, i, j, s, e) ==
    [iter_start |-> s, iter_stop |-> e, expected |-> Estimate(q, i, j, s, e, 0),
     given |-> CalcCIBlockFields]

\* numpy.zeros((nblocks, nstates, nstates), dtype=ci_dtype)
ZeroArray(nblocks, n) ==
    [slot \in (0 .. (nblocks - 1)) \X States(n) \X States(n) |-> ZeroRecord]

NoArray == [slot \in {} |-> ZeroRecord]

Unit(fn, iblock, istate, jstate, start, stop) ==
    [fn |-> fn, iblock |-> iblock, istate |-> istate, jstate |-> jstate,
     start |-> start, stop |-> stop]

\* one (label..., ci_result) tuple of a unit's return value: ds names the list
\* (and so the array of go()) it belongs to
Entry(ds, iblock, istate, jstate, rec) ==
    [ds |-> ds, iblock |-> iblock, istate |-> istate, jstate |-> jstate, ci |-> rec]

Pending == [status |-> "pending", entries |-> {}]
Raised  == [status |-> "failed", entries |-> {}]
Returned(entries) == [status |-> "ok", entries |-> entries]

DatasetName(base, istate, final) == [base |-> base, istate |-> istate, final |-> final]

\* the attributes of a dataset to which stamp_mcbs_info was not applied
NoAttrs == [mcbs_alpha |-> NaN, mcbs_acalpha |-> NaN, mcbs_nsets |-> PyNone]

\* lines 65-68: stamp_mcbs_info(dataset), s being the subcommand object
StampMcbsInfo(s) == [mcbs_alpha |-> s.mcbs_alpha, mcbs_acalpha |-> s.mcbs_acalpha,
                     mcbs_nsets |-> s.mcbs_nsets]

\* a dataset of the output file: its attributes, whether stamp_mcbs_info was
\* applied to it and the (istate, jstate) elements that hold a record computed
\* by an estimator
Dataset(name, attrs, pairs) ==
    [name |-> name, stamped |-> attrs # NoAttrs, attrs |-> attrs, pairs |-> pairs]

-----------------------------------------------------------------------------
(* KinAvgSubcommands.open_files, the first statement of both go() *)

\* variant of OpenFilesRaises: only the assignments file is checked
OpenFilesRaisesAssignmentsOnly(a) == ~a.assignments_span

\* lines 122-126: ValueError when check_data_iter_range_least fails for the
\* assignments file or for the kinetics file
OpenFilesRaises(a) == ~a.assignments_span \/ ~a.kinetics_span

-----------------------------------------------------------------------------
(* The window planner of AvgMatrixSubcommand.go, lines 600-613 *)

\* variant of MatrixWindowStop: the last window is not cut at stop_iter
MatrixWindowStopUncut(start, step_iter, stop_iter) == start + step_iter

\* line 608: stop = min(start+step_iter, stop_iter)
MatrixWindowStop(start, step_iter, stop_iter) == Min(start + step_iter, stop_iter)

\* variant of MatrixWindowSize: the fraction is taken of stop, not of the
\* iterations elapsed since start_iter
MatrixWindowSizeOfStop(frac, stop, start_iter) == IntOfProduct(frac, stop)

\* line 610: windowsize = int(self.evol_window_frac * (stop - start_iter))
MatrixWindowSize(frac, stop, start_iter) == IntOfProduct(frac, stop - start_iter)

\* variant of MatrixBlockStart: the cumulative mode is not looked at
MatrixBlockStartBlocked(mode, frac, start, stop, start_iter) == start

\* lines 609-613
MatrixBlockStart(mode, frac, start, stop, start_iter) ==
    IF mode = "cumulative"
    THEN Max(start_iter, stop - MatrixWindowSize(frac, stop, start_iter))
    ELSE start

\* int() of a NaN raises ValueError (line 610, reached in cumulative mode only)
PlanRaises(mode, frac) == mode = "cumulative" /\ IsNaN(frac)

\* variant of MatrixSkipEvolution: the evolution mode is not looked at
MatrixSkipEvolutionStepOnly(mode, step_iter) == step_iter = 0

\* lines 595-596: skip evolution if not requested
MatrixSkipEvolution(mode, step_iter) == mode = "none" \/ step_iter = 0

-----------------------------------------------------------------------------
(* The units, as the workers run them *)

\* get_macrostate_rates (westpa.kinetics.matrates) on the averaged rate tensor:
\* a singular or disconnected generator is a computation failure of the unit
MacrostateRatesOutcomes == {"ok", "failed"}

\* line 487: lbi = int(math.floor(mcbs_nsets*mcbs_alpha/2.0))
Lbi(mcbs_nsets, mcbs_alpha) == (mcbs_nsets * mcbs_alpha.num) \div (2 * mcbs_alpha.den)

\* line 488: ubi = int(math.ceil(mcbs_nsets*(1-mcbs_alpha/2.0)))
Ubi(mcbs_nsets, mcbs_alpha) ==
    (mcbs_nsets * (2 * mcbs_alpha.den - mcbs_alpha.num) + 2 * mcbs_alpha.den - 1)
        \div (2 * mcbs_alpha.den)

\* line 483: macro_fluxes has the shape (niters, nstates, nstates) and
\* macro_fluxes[istate, jstate] indexes its first axis with istate: IndexError
\* when istate is not below niters
CorrelSeriesRaises(istate, niters) == istate >= niters

\* line 525: synth_rates has mcbs_nsets elements; synth_rates[ubi] raises
\* IndexError when ubi is not below mcbs_nsets (lbi <= ubi, and both are >= 0)
QuantileRaises(mcbs_nsets, mcbs_alpha) == Ubi(mcbs_nsets, mcbs_alpha) >= mcbs_nsets

\* _calc_ci_block, lines 429-525.  With an empty window (stop_iter == start_iter)
\* starts and stops are empty arrays and stops[-1] (line 495) raises IndexError.
CalcCIBlockOutcomes(u, mcbs_alpha, mcbs_nsets) ==
    IF \/ u.stop <= u.start
       \/ CorrelSeriesRaises(u.istate, u.stop - u.start)
       \/ QuantileRaises(mcbs_nsets, mcbs_alpha)
    THEN {Raised}
    ELSE {IF r = "ok"
          THEN Returned({Entry("rate", u.iblock, u.istate, u.jstate,
                               CalcCIBlockRecord("rate", u.istate, u.jstate,
                                                 u.start, u.stop))})
          ELSE Raised : r \in MacrostateRatesOutcomes}

\* whether the module binds the name scipy (the imports of lines 18-39 do not)
ScipyImported == FALSE

\* _eval_block, lines 153-191.  Line 160 evaluates scipy.stats.sem for istate 0,
\* which raises NameError when scipy is not bound in the module.
EvalBlockOutcomes(u, nstates) ==
    IF ~ScipyImported /\ nstates >= 1
    THEN {Raised}
    ELSE {Returned(
            {Entry("target", u.iblock, i, PyNone,
                   CIRecord("target", i, PyNone, u.start, u.stop, 0)) : i \in States(nstates)}
            \cup
            {Entry(q, u.iblock, p[1], p[2], CIRecord(q, p[1], p[2], u.start, u.stop, 0)) :
                 q \in {"flux", "rate"},
                 p \in {pp \in States(nstates) \X States(nstates) : pp[1] # pp[2]}})}

\* line 203: xrange(1, int(len(dataset)/2) - 1)
BlockSizes(len) == 1 .. ((len \div 2) - 2)

\* _eval_block_avg, lines 193-225: one record per data set, block size and
\* (istate, jstate), stored at [blocksize - 1, istate, jstate]
EvalBlockAvgOutcomes(u, nstates) ==
    {Returned({Entry(q, b - 1, i, j, BlockAvgRecord(q, i, j, u.start, u.stop, b)) :
                 q \in {"target", "flux", "rate"},
                 b \in BlockSizes(Max(0, u.stop - u.start)),
                 i \in States(nstates), j \in States(nstates)})}

UnitOutcomes(u, nstates, mcbs_alpha, mcbs_nsets) ==
    CASE u.fn = "_calc_ci_block"  -> CalcCIBlockOutcomes(u, mcbs_alpha, mcbs_nsets)
      [] u.fn = "_eval_block"     -> EvalBlockOutcomes(u, nstates)
      [] u.fn = "_eval_block_avg" -> EvalBlockAvgOutcomes(u, nstates)

Running == {"avg_submit", "avg_collect", "evol_submit", "evol_collect"}

\* a worker finishes the unit of future i; as_completed yields futures in the
\* order in which this happens
Complete(i) ==
    /\ pc \in Running
    /\ i \in 1 .. Len(futures)
    /\ outcome[i] = Pending
    /\ \E o \in UnitOutcomes(futures[i], args.nstates, self.mcbs_alpha, self.mcbs_nsets) :
           outcome' = [outcome EXCEPT ![i] = o]
    /\ completed' = Append(completed, i)
    /\ UNCHANGED <<args, self, pc, futures, nconsumed, evol, file, ci>>

-----------------------------------------------------------------------------
(* AvgMatrixSubcommand.go *)

NPairs(n) == n * (n - 1)

\* variant of NWindows: only the windows of full length step_iter are counted
NWindowsFull(a, step_iter) == (a.iter_stop - a.iter_start) \div step_iter

\* lines 353 and 600: len(start_pts), start_pts = range(start_iter, stop_iter, step_iter)
NWindows(a, step_iter) == RangeLen(a.iter_start, a.iter_stop, step_iter)

NoArrays == [avg_rates |-> NoArray, target |-> NoArray, flux |-> NoArray, rate |-> NoArray]

\* the (istate, jstate) elements of an array that hold an estimator's record
ComputedPairs(arr) == {<<s[2], s[3]>> : s \in {t \in DOMAIN arr : arr[t] # ZeroRecord}}

\* arr[slot] = rec (an index outside the array raises IndexError: no caller
\* of the model produces one)
Store(arr, slot, rec) == [t \in DOMAIN arr |-> IF t = slot THEN rec ELSE arr[t]]

\* lines 579-580: _iblock, istate, jstate, ci_result = ...; avg_rates[istate,jstate] = ...
MatrixAvgSlot(e) == <<PyNone, e.istate, e.jstate>>

\* variant of MatrixEvolSlot: the slot is that of the future at position iresult
\* of the futures list
MatrixEvolSlotByPosition(e, iresult, futs) ==
    <<futs[iresult].iblock, futs[iresult].istate, futs[iresult].jstate>>

\* lines 627-629: the slot of evol that receives the result yielded as number
\* iresult (1-based) by as_completed, futs being the futures list
MatrixEvolSlot(e, iresult, futs) == <<e.iblock, e.istate, e.jstate>>

\* lines 562-569
MatrixBegin ==
    /\ pc = "go"
    /\ args.subcommand = "matrix"
    /\ IF OpenFilesRaises(args)
       THEN /\ pc' = "ValueError"
            /\ UNCHANGED <<futures, outcome, completed, nconsumed, evol>>
       ELSE /\ evol' = [NoArrays EXCEPT
                         !.avg_rates = [s \in {PyNone} \X States(args.nstates)
                                                      \X States(args.nstates)
                                          |-> ZeroRecord]]
            /\ futures' = <<>>
            /\ outcome' = <<>>
            /\ completed' = <<>>
            /\ nconsumed' = 0
            /\ pc' = IF NPairs(args.nstates) = 0 THEN "avg_collect" ELSE "avg_submit"
    /\ UNCHANGED <<args, self, file, ci>>

\* lines 570-576: one iteration of the nested loops
MatrixSubmitAvg ==
    /\ pc = "avg_submit"
    /\ LET k == Len(futures) + 1
           p == PairSeq(args.nstates)[k]
       IN /\ futures' = Append(futures, Unit("_calc_ci_block", PyNone, p[1], p[2],
                                             args.iter_start, args.iter_stop))
          /\ outcome' = Append(outcome, Pending)
          /\ pc' = IF k = NPairs(args.nstates) THEN "avg_collect" ELSE "avg_submit"
    /\ UNCHANGED <<args, self, completed, nconsumed, evol, file, ci>>

\* lines 578-580: one iteration of the as_completed loop; get_result re-raises
\* the exception of a failed unit, and go() catches nothing
MatrixConsumeAvg ==
    /\ pc = "avg_collect"
    /\ nconsumed < Len(completed)
    /\ LET o == outcome[completed[nconsumed + 1]]
       IN IF o.status = "failed"
          THEN /\ pc' = "UnitError"
               /\ UNCHANGED <<nconsumed, evol>>
          ELSE /\ \E e \in o.entries :
                      evol' = [evol EXCEPT !.avg_rates = Store(@, MatrixAvgSlot(e), e.ci)]
               /\ nconsumed' = nconsumed + 1
               /\ pc' = pc
    /\ UNCHANGED <<args, self, futures, outcome, completed, file, ci>>

\* lines 582-602: save and stamp avg_rates, then return or set up the evolution
MatrixSaveAvg ==
    /\ pc = "avg_collect"
    /\ nconsumed = Len(futures)
    /\ file' = file \cup {Dataset(DatasetName("avg_rates", PyNone, PyNone), StampMcbsInfo(self),
                                  ComputedPairs(evol.avg_rates))}
    /\ IF MatrixSkipEvolution(self.evolution_mode, self.iter_step)
       THEN /\ pc' = "done"
            /\ UNCHANGED <<futures, outcome, completed, nconsumed, evol>>
       ELSE /\ evol' = [evol EXCEPT !.rate = ZeroArray(NWindows(args, self.iter_step),
                                                       args.nstates)]
            /\ futures' = <<>>
            /\ outcome' = <<>>
            /\ completed' = <<>>
            /\ nconsumed' = 0
            /\ pc' = IF NPairs(args.nstates) * NWindows(args, self.iter_step) = 0
                     THEN "evol_collect" ELSE "evol_submit"
    /\ UNCHANGED <<args, self, ci>>

\* lines 604-620: one iteration of the nested loops
MatrixSubmitEvol ==
    /\ pc = "evol_submit"
    /\ args.subcommand = "matrix"
    /\ LET k      == Len(futures) + 1
           nwin   == NWindows(args, self.iter_step)
           p      == PairSeq(args.nstates)[((k - 1) \div nwin) + 1]
           iblock == (k - 1) % nwin
           start  == RangeAt(args.iter_start, self.iter_step, iblock)
           stop   == MatrixWindowStop(start, self.iter_step, args.iter_stop)
       IN IF PlanRaises(self.evolution_mode, self.evol_window_frac)
          THEN /\ pc' = "PlanError"
               /\ UNCHANGED <<futures, outcome>>
          ELSE /\ futures' = Append(futures,
                      Unit("_calc_ci_block", iblock, p[1], p[2],
                           MatrixBlockStart(self.evolution_mode, self.evol_window_frac,
                                            start, stop, args.iter_start),
                           stop))
               /\ outcome' = Append(outcome, Pending)
               /\ pc' = IF k = NPairs(args.nstates) * nwin
                        THEN "evol_collect" ELSE "evol_submit"
    /\ UNCHANGED <<args, self, completed, nconsumed, evol, file, ci>>

\* lines 624-629: one iteration of the as_completed loop
MatrixConsumeEvol ==
    /\ pc = "evol_collect"
    /\ args.subcommand = "matrix"
    /\ nconsumed < Len(completed)
    /\ LET o == outcome[completed[nconsumed + 1]]
       IN IF o.status = "failed"
          THEN /\ pc' = "UnitError"
               /\ UNCHANGED <<nconsumed, evol>>
          ELSE /\ \E e \in o.entries :
                      evol' = [evol EXCEPT !.rate =
                                  Store(@, MatrixEvolSlot(e, nconsumed + 1, futures), e.ci)]
               /\ nconsumed' = nconsumed + 1
               /\ pc' = pc
    /\ UNCHANGED <<args, self, futures, outcome, completed, file, ci>>

\* lines 633-634
MatrixWriteEvol ==
    /\ pc = "evol_collect"
    /\ args.subcommand = "matrix"
    /\ nconsumed = Len(futures)
    /\ file' = file \cup {Dataset(DatasetName("rate_evolution", PyNone, PyNone), StampMcbsInfo(self),
                                  ComputedPairs(evol.rate))}
    /\ pc' = "done"
    /\ UNCHANGED <<args, self, futures, outcome, completed, nconsumed, evol, ci>>

-----------------------------------------------------------------------------
(* AvgTraceSubcommand.go *)

\* line 355: stop = min(start+step_iter, stop_iter)
TraceWindowStop(start, step_iter, stop_iter) == Min(start + step_iter, stop_iter)

\* line 357: windowsize = int(self.evol_window_frac * (stop - start_iter))
TraceWindowSize(frac, stop, start_iter) == IntOfProduct(frac, stop - start_iter)

\* lines 356-360
TraceBlockStart(mode, frac, start, stop, start_iter) ==
    IF mode = "cumulative"
    THEN Max(start_iter, stop - TraceWindowSize(frac, stop, start_iter))
    ELSE start

\* lines 345-346: skip evolution if not requested
TraceSkipEvolution(mode, step_iter) == mode = "none" \/ step_iter = 0

\* lines 271-300: the loop over the off-diagonal pairs evaluates scipy.stats.sem
\* (line 283) for the first pair, so it raises NameError when there is a pair
TraceAveragesRaise(nstates) == ~ScipyImported /\ NPairs(nstates) > 0

\* lines 385-395: every (label, ci_result) of the three lists goes to the slot
\* its own label names
TraceScatter(arrs, entries) ==
    [ds \in DOMAIN arrs |->
        [t \in DOMAIN arrs[ds] |->
            IF \E e \in entries : e.ds = ds /\ <<e.iblock, e.istate, e.jstate>> = t
            THEN (CHOOSE e \in entries :
                      e.ds = ds /\ <<e.iblock, e.istate, e.jstate>> = t).ci
            ELSE arrs[ds][t]]]

\* the state pairs of the records of list ds in a unit's return value
EntryPairs(entries, ds) == {<<e.istate, e.jstate>> : e \in {x \in entries : x.ds = ds}}

\* lines 235-352: open the files, compute and save the overall averages, then
\* return or set up the evolution
TraceAverages ==
    /\ pc = "go"
    /\ args.subcommand = "trace"
    /\ IF OpenFilesRaises(args) \/ TraceAveragesRaise(args.nstates)
       THEN /\ pc' = IF OpenFilesRaises(args) THEN "ValueError" ELSE "NameError"
            /\ UNCHANGED <<futures, outcome, completed, nconsumed, evol, file>>
       ELSE /\ file' = file \cup
                 {Dataset(DatasetName("avg_rates", PyNone, PyNone), StampMcbsInfo(self), {}),
                  Dataset(DatasetName("avg_conditional_fluxes", PyNone, PyNone), StampMcbsInfo(self), {}),
                  Dataset(DatasetName("avg_total_fluxes", PyNone, PyNone), StampMcbsInfo(self), {}),
                  Dataset(DatasetName("state_labels", PyNone, PyNone), NoAttrs, {})}
            /\ futures' = <<>>
            /\ outcome' = <<>>
            /\ completed' = <<>>
            /\ nconsumed' = 0
            /\ IF TraceSkipEvolution(self.evolution_mode, self.iter_step)
               THEN /\ pc' = "done"
                    /\ evol' = evol
               ELSE /\ pc' = "evol_submit"
                    /\ evol' = [NoArrays EXCEPT
                         !.target = [s \in (0 .. (NWindows(args, self.iter_step) - 1))
                                             \X States(args.nstates) \X {PyNone}
                                       |-> ZeroRecord],
                         !.flux = ZeroArray(NWindows(args, self.iter_step), args.nstates),
                         !.rate = ZeroArray(NWindows(args, self.iter_step), args.nstates)]
    /\ UNCHANGED <<args, self, ci>>

\* lines 354-379: one iteration of the loop over start_pts
TraceSubmitEvol ==
    /\ pc = "evol_submit"
    /\ args.subcommand = "trace"
    /\ LET k      == Len(futures) + 1
           nwin   == NWindows(args, self.iter_step)
           iblock == k - 1
           start  == RangeAt(args.iter_start, self.iter_step, iblock)
           stop   == TraceWindowStop(start, self.iter_step, args.iter_stop)
       IN IF PlanRaises(self.evolution_mode, self.evol_window_frac)
          THEN /\ pc' = "PlanError"
               /\ UNCHANGED <<futures, outcome>>
          ELSE /\ futures' = Append(futures,
                      Unit(IF self.type = "bootstrap" THEN "_eval_block"
                                                      ELSE "_eval_block_avg",
                           iblock, PyNone, PyNone,
                           TraceBlockStart(self.evolution_mode, self.evol_window_frac,
                                           start, stop, args.iter_start),
                           stop))
               /\ outcome' = Append(outcome, Pending)
               /\ pc' = IF k = nwin THEN "evol_collect" ELSE "evol_submit"
    /\ UNCHANGED <<args, self, completed, nconsumed, evol, file, ci>>

\* lines 382-395 (bootstrap) and 407-424 (block): one iteration of the
\* as_completed loop.  In the block variant the names carry the unit's stop and
\* the value istate kept from the loop of lines 335-336 (nstates - 1).
TraceConsume ==
    /\ pc = "evol_collect"
    /\ args.subcommand = "trace"
    /\ nconsumed < Len(completed)
    /\ LET i == completed[nconsumed + 1]
           o == outcome[i]
       IN IF o.status = "failed"
          THEN /\ pc' = "UnitError"
               /\ UNCHANGED <<nconsumed, evol, file>>
          ELSE /\ nconsumed' = nconsumed + 1
               /\ pc' = pc
               /\ IF self.type = "bootstrap"
                  THEN /\ evol' = TraceScatter(evol, o.entries)
                       /\ file' = file
                  ELSE /\ evol' = evol
                       /\ file' = file \cup
                            {Dataset(DatasetName("block_avg_conditional_flux",
                                                 args.nstates - 1, futures[i].stop),
                                     NoAttrs, EntryPairs(o.entries, "flux")),
                             Dataset(DatasetName("block_avg_target_flux",
                                                 args.nstates - 1, futures[i].stop),
                                     NoAttrs, EntryPairs(o.entries, "target")),
                             Dataset(DatasetName("block_avg rate final",
                                                 PyNone, futures[i].stop),
                                     NoAttrs, EntryPairs(o.entries, "rate"))}
    /\ UNCHANGED <<args, self, futures, outcome, completed, ci>>

\* lines 397-402: after the bootstrap loop the three evolution datasets are
\* created and stamped; the block variant writes nothing more
TraceFinish ==
    /\ pc = "evol_collect"
    /\ args.subcommand = "trace"
    /\ nconsumed = Len(futures)
    /\ file' = IF self.type = "bootstrap"
               THEN file \cup
                    {Dataset(DatasetName("conditional_flux_evolution", PyNone, PyNone),
                             StampMcbsInfo(self), ComputedPairs(evol.flux)),
                     Dataset(DatasetName("target_flux_evolution", PyNone, PyNone),
                             StampMcbsInfo(self), {}),
                     Dataset(DatasetName("rate_evolution", PyNone, PyNone),
                             StampMcbsInfo(self), ComputedPairs(evol.rate))}
               ELSE file
    /\ pc' = "done"
    /\ UNCHANGED <<args, self, futures, outcome, completed, nconsumed, evol, ci>>

-----------------------------------------------------------------------------
(* One run of the tool *)

CIIdle == [pc |-> "idle"]

\* line 106: --evolution-mode, choices and default
EvolutionModeDefault == "none"
EvolutionModes == {"cumulative", "blocked", "none"} \cup {EvolutionModeDefault}

\* AvgMatrixSubcommand.go never reads self.type, so matrix runs are explored
\* with the default --type only
\* --alpha, --autocorrel-alpha and --nsets as given together: alpha 0.5 with
\* the defaults of the other two, alpha 0.75 with 3 resamples, and alpha 0.75
\* and autocorrel-alpha 0.5 with 2 resamples
McbsArgs ==
    {[alpha |-> Frac(2), acalpha |-> NoFloat, nsets |-> PyNone],
     [alpha |-> Frac(3), acalpha |-> NoFloat, nsets |-> 3],
     [alpha |-> Frac(3), acalpha |-> Frac(2), nsets |-> 2]}

\* what check_data_iter_range_least answers for the assignments and for the
\* kinetics file
DataSpans ==
    {[assignments |-> TRUE, kinetics |-> TRUE], [assignments |-> TRUE, kinetics |-> FALSE],
     [assignments |-> FALSE, kinetics |-> TRUE]}

RunArgs ==
    {[subcommand |-> sc, type |-> ty, evolution_mode |-> em, window_frac |-> wf,
      iter_start |-> st, iter_stop |-> st + len, iter_step |-> sp, nstates |-> ns,
      alpha |-> m.alpha, acalpha |-> m.acalpha, nsets |-> m.nsets,
      assignments_span |-> d.assignments, kinetics_span |-> d.kinetics] :
        sc \in {"trace", "matrix"}, ty \in {"bootstrap", "block"},
        em \in EvolutionModes, wf \in WindowFracs,
        st \in 0 .. MaxStart, len \in 1 .. MaxLen,
        sp \in {PyNone} \cup (0 .. MaxStep), ns \in 1 .. MaxStates,
        m \in McbsArgs, d \in DataSpans}

UnitsWithin(a) ==
    LET step == IterStep(a)
        nwin == IF step = 0 THEN 0 ELSE RangeLen(a.iter_start, a.iter_stop, step)
    IN IF a.subcommand = "matrix"
       THEN /\ a.type = "bootstrap"
            /\ NPairs(a.nstates) <= MaxUnits
            /\ NPairs(a.nstates) * nwin <= MaxUnits
       ELSE nwin <= MaxUnits

Init ==
    /\ args \in {a \in RunArgs : UnitsWithin(a)}
    /\ self = SelfUnset
    /\ pc = "process_args"
    /\ futures = <<>>
    /\ outcome = <<>>
    /\ completed = <<>>
    /\ nconsumed = 0
    /\ evol = NoArrays
    /\ file = {}
    /\ ci = CIIdle

Next ==
    \/ ProcessArgs
    \/ MatrixBegin
    \/ MatrixSubmitAvg
    \/ MatrixConsumeAvg
    \/ MatrixSaveAvg
    \/ MatrixSubmitEvol
    \/ MatrixConsumeEvol
    \/ MatrixWriteEvol
    \/ TraceAverages
    \/ TraceSubmitEvol
    \/ TraceConsume
    \/ TraceFinish
    \/ \E i \in 1 .. MaxUnits : Complete(i)

Spec == Init /\ [][Next]_vars

\* A run in which the main thread keeps running go() and the workers finish
\* the units they were given: a step is taken whenever one is possible
SpecLive == Init /\ [][Next]_vars /\ WF_vars(Next)

-----------------------------------------------------------------------------
(* _calc_ci_block, lines 429-525: the bootstrap blocks and the resampling *)

\* numpy.arange(first, limit, step) for step > 0, as a 1-based sequence
\* (dtype=numpy.uintc: the iteration numbers of the model are far below 2^32)
Arange(first, limit, step) ==
    [k \in 1 .. RangeLen(first, limit, step) |-> first + (k - 1) * step]

\* line 492
CIStarts(start_iter, stop_iter, stride) == Arange(start_iter, stop_iter, stride)

\* variant of CIStops: the last stop is not cut at stop_iter
CIStopsUncut(start_iter, stop_iter, stride) ==
    Arange(start_iter + stride, stop_iter + stride, stride)

\* lines 493 and 495: if stops[-1] > stop_iter: stops[-1] = stop_iter
CIStops(start_iter, stop_iter, stride) ==
    LET raw == Arange(start_iter + stride, stop_iter + stride, stride)
    IN [k \in DOMAIN raw |->
           IF k = Len(raw) /\ raw[k] > stop_iter THEN stop_iter ELSE raw[k]]

\* lines 503-504: a resample draws this many blocks
CIDrawsPerSet(nblocks) == nblocks

\* line 504: random.randint(0, nblocks-1), both ends included (0-based)
RandInt(lo, hi) == lo .. hi

\* The stored data of the window, for the pair (istate, jstate): flux[n], the
\* value iteration start_iter + n - 1 adds to the flux of the pair, with equal
\* populations in every iteration.  The rate of a collection of iterations is
\* then their summed flux over their number, kept as the fraction sum/n.
Rate(sum, n) == [sum |-> sum, n |-> n]
RateLess(a, b) == a.sum * b.n < b.sum * a.n
RateLeq(a, b)  == a.sum * b.n <= b.sum * a.n

RECURSIVE SumFlux(_, _, _)
\* the flux summed over the iterations [first, limit) of the window
SumFlux(flux, first, limit) ==
    IF limit <= first THEN 0 ELSE flux[first + 1] + SumFlux(flux, first + 1, limit)

\* line 476: macro_fluxes[iiter][i][j], the flux of iteration n_iter from
\* macrostate i to macrostate j, kept as a term
MacroFlux(n_iter, i, j) == <<n_iter, i, j>>

\* line 483: the array macro_fluxes[istate, jstate] handed to mcbs_correltime.
\* macro_fluxes has the axes (iteration, from-state, to-state), so the two
\* indices select iteration number istate of the window and from-state jstate.
CorrelSeries(start_iter, istate, jstate, nstates) ==
    [k \in 1 .. nstates |-> MacroFlux(start_iter + istate, jstate, k - 1)]

\* variant of SortRates: the resample values are left in the order they were drawn
SortRatesNot(synth_rates) == synth_rates

\* line 522: synth_rates.sort()
SortRates(synth_rates) == SortSeq(synth_rates, RateLess)

\* variant of CIReturnExpected: the rate of the last resample is returned
CIReturnExpectedLast(overall_avg_rates, macro_rates) == macro_rates

\* line 525: the third value of the returned record, overall_avg_rates[istate, jstate]
CIReturnExpected(overall_avg_rates, macro_rates) == overall_avg_rates

\* lines 431-495: the overall average, the correlation time (the value
\* mcbs_correltime returns is an input here) and the blocks.  Line 483 raises
\* IndexError when istate is not below niters (an empty window included).
CIOverall ==
    /\ ci.pc = "entry"
    /\ \E ctime \in 0 .. MaxCorrLen :
         LET stride == ctime + 1
             niters == ci.stop_iter - ci.start_iter
             starts == CIStarts(ci.start_iter, ci.stop_iter, stride)
             stops  == CIStops(ci.start_iter, ci.stop_iter, stride)
             rate   == Rate(SumFlux(ci.flux, 0, niters), niters)
         IN IF CorrelSeriesRaises(ci.istate, niters) \/ Len(stops) = 0
            THEN ci' = [ci EXCEPT !.pc = "IndexError"]
            ELSE ci' = [ci EXCEPT !.pc = "resample",
                                  !.overall_avg_rates = rate,
                                  !.macro_rates = rate,
                                  !.series = CorrelSeries(ci.start_iter, ci.istate,
                                                          ci.jstate, ci.nstates),
                                  !.ctime = ctime, !.starts = starts, !.stops = stops,
                                  !.nblocks = Len(starts)]
    /\ UNCHANGED runvars

\* lines 503-515: one iteration of `for _block in xrange(nblocks)`, with the
\* loop over the iterations of the drawn block
CIDraw ==
    /\ ci.pc = "resample"
    /\ ci.drawn < CIDrawsPerSet(ci.nblocks)
    /\ \E iblock \in RandInt(0, ci.nblocks - 1) :
         LET first == ci.starts[iblock + 1] - ci.start_iter
             limit == ci.stops[iblock + 1] - ci.start_iter
         IN ci' = [ci EXCEPT !.drawn = @ + 1,
                             !.iters_averaged = @ + Max(0, limit - first),
                             !.avg_fluxes = @ + SumFlux(ci.flux, first, limit)]
    /\ UNCHANGED runvars

\* lines 517-521 for resample iset, then lines 497-500 for the next one, or
\* lines 522-525 after the last: the sort, and the record or the IndexError of
\* synth_rates[ubi]
CIEndSet ==
    /\ ci.pc = "resample"
    /\ ci.drawn = CIDrawsPerSet(ci.nblocks)
    /\ LET macro_rates == Rate(ci.avg_fluxes, ci.iters_averaged)
           synth_rates == Append(ci.synth_rates, macro_rates)
           sorted      == SortRates(synth_rates)
           last        == Len(synth_rates) = ci.mcbs_nsets
           raises      == QuantileRaises(ci.mcbs_nsets, ci.mcbs_alpha)
       IN ci' = [ci EXCEPT
                   !.set_iters = Append(@, ci.iters_averaged),
                   !.synth_rates = IF last THEN sorted ELSE synth_rates,
                   !.macro_rates = macro_rates,
                   !.iters_averaged = 0,
                   !.avg_fluxes = 0,
                   !.drawn = 0,
                   !.pc = IF ~last THEN "resample"
                          ELSE IF raises THEN "IndexError" ELSE "returned",
                   !.result =
                       IF ~last \/ raises THEN @
                       ELSE [iter_start |-> ci.start_iter, iter_stop |-> ci.stop_iter,
                             expected |-> CIReturnExpected(ci.overall_avg_rates, macro_rates),
                             ci_lbound |-> sorted[Lbi(ci.mcbs_nsets, ci.mcbs_alpha) + 1],
                             ci_ubound |-> sorted[Ubi(ci.mcbs_nsets, ci.mcbs_alpha) + 1],
                             corr_len |-> ci.ctime]]
    /\ UNCHANGED runvars

\* The calls explored: a system of two macrostates, the flux of the pair in
\* an iteration being 0 or 1.
\* --alpha as _calc_ci_block is given it: 0.5 and 0.75
CIAlphas == {Frac(2), Frac(3)}

\* the record before line 525 is reached
NoResult == [iter_start |-> PyNone, iter_stop |-> PyNone, expected |-> Rate(0, 0),
             ci_lbound |-> Rate(0, 0), ci_ubound |-> Rate(0, 0), corr_len |-> PyNone]

CICalls ==
    {[pc |-> "entry", start_iter |-> st, stop_iter |-> st + Len(fl), flux |-> fl,
      nstates |-> 2, istate |-> p[1], jstate |-> p[2],
      mcbs_alpha |-> al, mcbs_nsets |-> ns,
      overall_avg_rates |-> Rate(0, 0), macro_rates |-> Rate(0, 0), series |-> <<>>,
      ctime |-> 0, starts |-> <<>>, stops |-> <<>>, nblocks |-> 0,
      drawn |-> 0, iters_averaged |-> 0, avg_fluxes |-> 0,
      set_iters |-> <<>>, synth_rates |-> <<>>, result |-> NoResult] :
        st \in 0 .. CIMaxStart,
        fl \in UNION {[1 .. len -> {0, 1}] : len \in 0 .. CIMaxLen},
        p \in {<<0, 1>>, <<1, 0>>},
        al \in CIAlphas, ns \in 1 .. MaxSets}

IdleArgs == [subcommand |-> "none"]

InitCI ==
    /\ ci \in CICalls
    /\ args = IdleArgs
    /\ self = SelfUnset
    /\ pc = "idle"
    /\ futures = <<>>
    /\ outcome = <<>>
    /\ completed = <<>>
    /\ nconsumed = 0
    /\ evol = NoArrays
    /\ file = {}

NextCI ==
    \/ CIOverall
    \/ CIDraw
    \/ CIEndSet

SpecCI == InitCI /\ [][NextCI]_vars

-----------------------------------------------------------------------------
(* The random draws of _calc_ci_block units that run in one process          *)
(* (SpecRNG).  Line 504 calls random.randint, the function of the module      *)
(* `random` imported at line 21: it draws from the one generator of the       *)
(* process, whose output number k (0-based) is kept here as the number k.     *)

\* a unit makes at most MaxDraws draws
MaxDraws == 4

\* the units that run concurrently in the process
RNGUnits == {1, 2}

\* line 504, executed by unit u: the next output of the generator of the module
RNGDraw(u) ==
    /\ ci.pc = "drawing"
    /\ Len(ci.draws[u]) < MaxDraws
    /\ ci' = [ci EXCEPT !.draws[u] = Append(@, ci.generator),
                        !.generator = @ + 1]
    /\ UNCHANGED runvars

InitRNG ==
    /\ ci = [pc |-> "drawing", generator |-> 0, draws |-> [u \in RNGUnits |-> <<>>]]
    /\ args = IdleArgs
    /\ self = SelfUnset
    /\ pc = "idle"
    /\ futures = <<>>
    /\ outcome = <<>>
    /\ completed = <<>>
    /\ nconsumed = 0
    /\ evol = NoArrays
    /\ file = {}

NextRNG == \E u \in RNGUnits : RNGDraw(u)

SpecRNG == InitRNG /\ [][NextRNG]_vars

-----------------------------------------------------------------------------
(* pare_basis_initial_states (src/src/wemd/states.py, lines 153-172), one     *)
(* call (SpecPare).  A basis state is kept as [state_id], an initial state as  *)
(* [state_id, basis_state_id] and a segment as [p_parent_id, initpoint_type];  *)
(* the states of one iterable have distinct state_ids, as the data manager     *)
(* numbers them.                                                               *)

\* state_id and p_parent_id range over 0..MaxStateId
MaxStateId == 1
\* at most MaxSegments segments are given
MaxSegments == 2

StateIds == 0 .. MaxStateId

\* segment.initpoint_type: the two kinds the function looks at, and one other
InitpointTypes == {"SEG_INITPOINT_BASIS", "SEG_INITPOINT_GENERATED", "SEG_INITPOINT_CONTINUES"}

\* lines 158-159: {state.state_id: state for state in states}
StateMap(states) ==
    [id \in {st.state_id : st \in states} |-> CHOOSE st \in states : st.state_id = id]

\* the p_parent_ids of the segments of one initpoint_type (lines 163, 165)
ParentIds(segments, type) ==
    {g.p_parent_id : g \in {x \in segments : x.initpoint_type = type}}

\* variant of BasisOfInitial: no basis state is taken from the initial states
BasisOfInitialNone(bstatemap, return_istates) == {}

\* lines 167 and 170: bstatemap[istate.basis_state_id] for istate in return_istates
BasisOfInitial(bstatemap, return_istates) ==
    {bstatemap[istate.basis_state_id] : istate \in return_istates}

\* a dictionary lookup of lines 162-170 raises KeyError: the parent of a
\* segment or the basis state of a returned initial state is not in its map
PareRaises(basis_states, initial_states, segments) ==
    LET bstatemap == StateMap(basis_states)
        istatemap == StateMap(initial_states)
    IN IF segments.given
       THEN \/ ~(ParentIds(segments.list, "SEG_INITPOINT_BASIS") \subseteq DOMAIN bstatemap)
            \/ ~(ParentIds(segments.list, "SEG_INITPOINT_GENERATED") \subseteq DOMAIN istatemap)
            \/ \E id \in ParentIds(segments.list, "SEG_INITPOINT_GENERATED") \cap DOMAIN istatemap :
                  istatemap[id].basis_state_id \notin DOMAIN bstatemap
       ELSE \E istate \in initial_states : istate.basis_state_id \notin DOMAIN bstatemap

\* lines 158-172, when no lookup raises
PareBasisInitialStates(basis_states, initial_states, segments) ==
    LET bstatemap == StateMap(basis_states)
        istatemap == StateMap(initial_states)
    IN IF segments.given
       THEN LET return_istates ==
                    {istatemap[id] : id \in ParentIds(segments.list, "SEG_INITPOINT_GENERATED")}
                return_bstates ==
                    {bstatemap[id] : id \in ParentIds(segments.list, "SEG_INITPOINT_BASIS")}
            IN [return_bstates |-> return_bstates
                                     \cup BasisOfInitial(bstatemap, return_istates),
                return_istates |-> return_istates]
       ELSE [return_bstates |-> BasisOfInitial(bstatemap, initial_states),
             return_istates |-> initial_states]

NoStates == [return_bstates |-> {}, return_istates |-> {}]

Pare ==
    /\ ci.pc = "pare"
    /\ IF PareRaises(ci.basis_states, ci.initial_states, ci.segments)
       THEN ci' = [ci EXCEPT !.pc = "KeyError"]
       ELSE ci' = [ci EXCEPT !.pc = "pared",
                             !.result = PareBasisInitialStates(ci.basis_states,
                                                               ci.initial_states,
                                                               ci.segments)]
    /\ UNCHANGED runvars

\* segments=None, or a collection of at most MaxSegments segments
SegmentArgs ==
    {[given |-> FALSE, list |-> {}]} \cup
    {[given |-> TRUE, list |-> l] :
        l \in {x \in SUBSET [p_parent_id : StateIds, initpoint_type : InitpointTypes] :
                   Cardinality(x) <= MaxSegments}}

PareCalls ==
    {[pc |-> "pare", basis_states |-> bs, initial_states |-> is, segments |-> sg,
      result |-> NoStates] :
        bs \in SUBSET [state_id : StateIds],
        is \in {x \in SUBSET [state_id : StateIds, basis_state_id : StateIds] :
                    \A a, b \in x : a.state_id = b.state_id => a = b},
        sg \in SegmentArgs}

InitPare ==
    /\ ci \in PareCalls
    /\ args = IdleArgs
    /\ self = SelfUnset
    /\ pc = "idle"
    /\ futures = <<>>
    /\ outcome = <<>>
    /\ completed = <<>>
    /\ nconsumed = 0
    /\ evol = NoArrays
    /\ file = {}

NextPare == Pare

SpecPare == InitPare /\ [][NextPare]_vars

-----------------------------------------------------------------------------
(* Properties *)

EvolArrays == {"target", "flux", "rate"}

\* the evolution units among the submitted futures (the units of the overall
\* averages carry the block label None)
EvolUnits == {i \in 1 .. Len(futures) : futures[i].iblock # PyNone}

\* go() has left the submission loop of the evolution analysis
EvolSubmitted == pc \in {"evol_collect", "done", "UnitError"} /\ EvolUnits # {}

\* the results go() has taken from as_completed so far
Consumed == {completed[n] : n \in 1 .. nconsumed}

\* the record that list ds of the return values of the futures in `from` holds
\* for slot t, if any
LabelledFor(from, ds, t) ==
    {e \in UNION {outcome[i].entries : i \in from} :
         e.ds = ds /\ <<e.iblock, e.istate, e.jstate>> = t}

RECURSIVE AwaitInOrder(_, _)
\* the arrays obtained from arrs by awaiting futures i, i+1, ... in submission
\* order and storing each returned record under its label
AwaitInOrder(arrs, i) ==
    IF i > Len(futures)
    THEN arrs
    ELSE AwaitInOrder(
           [ds \in DOMAIN arrs |->
              [t \in DOMAIN arrs[ds] |->
                 IF LabelledFor({i}, ds, t) # {}
                 THEN (CHOOSE e \in LabelledFor({i}, ds, t) : TRUE).ci
                 ELSE arrs[ds][t]]],
           i + 1)

ZeroedEvol == [ds \in EvolArrays |-> [t \in DOMAIN evol[ds] |-> ZeroRecord]]

\* C1: in the trace (bootstrap) and matrix evolution analyses every element of
\* the output arrays holds the record whose own label names that element, if
\* such a result was consumed, and zero otherwise, whatever the order of
\* completion; once all results are consumed the arrays equal those obtained
\* by awaiting the units one by one in submission order.
C1_ScatterByLabel ==
    (EvolUnits # {} /\ (args.subcommand = "matrix" \/ self.type = "bootstrap")) =>
        /\ \A ds \in EvolArrays : \A t \in DOMAIN evol[ds] :
               IF LabelledFor(Consumed, ds, t) # {}
               THEN \A e \in LabelledFor(Consumed, ds, t) : evol[ds][t] = e.ci
               ELSE evol[ds][t] = ZeroRecord
        /\ pc = "done" => [ds \in EvolArrays |-> evol[ds]] = AwaitInOrder(ZeroedEvol, 1)

\* a finished matrix evolution whose units completed out of submission order
C1_Witness ==
    /\ pc = "done"
    /\ args.subcommand = "matrix"
    /\ Cardinality(EvolUnits) >= 2
    /\ \E m, n \in 1 .. Len(completed) : m < n /\ completed[m] > completed[n]
    /\ \E t \in DOMAIN evol.rate : evol.rate[t] # ZeroRecord

\* C2: when exactly one evolution unit has failed, its siblings (at least
\* one) have all succeeded and the main thread has stopped, the run has finished the
\* evolution analysis: the record of every successful unit is in its slot
\* and the evolution dataset is written.
C2_FailureIsolated ==
    ( /\ EvolSubmitted
      /\ pc \in {"done", "UnitError"}
      /\ \A i \in EvolUnits : outcome[i] # Pending
      /\ Cardinality({i \in EvolUnits : outcome[i].status = "failed"}) = 1
      /\ Cardinality({i \in EvolUnits : outcome[i].status = "ok"}) >= 1 )
    =>
    ( /\ pc = "done"
      /\ \A i \in EvolUnits : \A e \in outcome[i].entries :
             e.ds \in EvolArrays => evol[e.ds][<<e.iblock, e.istate, e.jstate>>] = e.ci
      /\ \E d \in file : d.name.base = "rate_evolution" )

\* C3: every evolution unit submitted has a non-empty window, stop > start.
C3_WindowsNonEmpty ==
    \A i \in EvolUnits : futures[i].stop > futures[i].start

\* the windows of the evolution units submitted
Windows == {<<futures[i].start, futures[i].stop>> : i \in EvolUnits}

\* C4: in blocked mode the unit of window k has the range
\* [start_iter + k*step_iter, min(start_iter + (k+1)*step_iter, stop_iter)) with
\* start_iter + k*step_iter < stop_iter; once all units are submitted every
\* iteration of [start_iter, stop_iter) lies in exactly one window, no window
\* reaches outside that range, and every window has width step_iter except
\* the one ending at stop_iter, which may be shorter.  With start 0, stop 100
\* and step 25 the planner gives [0,25), [25,50), [50,75), [75,100).
C4_BlockedWindows ==
    /\ self.evolution_mode = "blocked" =>
         /\ \A i \in EvolUnits :
              LET k == futures[i].iblock
              IN /\ futures[i].start = args.iter_start + k * self.iter_step
                 /\ futures[i].start < args.iter_stop
                 /\ futures[i].stop =
                      Min(args.iter_start + (k + 1) * self.iter_step, args.iter_stop)
         /\ EvolSubmitted =>
              /\ \A n \in args.iter_start .. (args.iter_stop - 1) :
                     Cardinality({w \in Windows : w[1] <= n /\ n < w[2]}) = 1
              /\ \A w \in Windows :
                     /\ args.iter_start <= w[1] /\ w[1] < w[2] /\ w[2] <= args.iter_stop
                     /\ w[2] - w[1] <= self.iter_step
                     /\ w[2] # args.iter_stop => w[2] - w[1] = self.iter_step
    /\ \A k \in 0 .. 3 :
         /\ MatrixWindowStop(RangeAt(0, 25, k), 25, 100) = 25 * (k + 1)
         /\ MatrixBlockStart("blocked", Frac(4), RangeAt(0, 25, k),
                             MatrixWindowStop(RangeAt(0, 25, k), 25, 100), 0) = 25 * k
         /\ TraceWindowStop(RangeAt(0, 25, k), 25, 100) = 25 * (k + 1)
         /\ TraceBlockStart("blocked", Frac(4), RangeAt(0, 25, k),
                            TraceWindowStop(RangeAt(0, 25, k), 25, 100), 0) = 25 * k
    /\ RangeLen(0, 100, 25) = 4

\* a blocked matrix evolution with several windows, the last one shorter
C4_Witness ==
    /\ self.evolution_mode = "blocked"
    /\ args.subcommand = "matrix"
    /\ EvolSubmitted
    /\ Cardinality(Windows) >= 2
    /\ \E w \in Windows : w[2] = args.iter_stop /\ w[2] - w[1] < self.iter_step

\* floor(x * n) for the fraction x = num/den and an integer n
FloorOfProduct(x, n) == CHOOSE f \in 0 .. n + n : f * x.den <= x.num * n /\ x.num * n < (f + 1) * x.den

OutsideUnitInterval(x) == IsNaN(x) \/ x.num <= 0 \/ x.num > x.den

\* C6: with a window_frac outside (0,1] the run ends in process_args with an
\* error: go() is not entered and no unit is submitted.
C6_WindowFracRejected ==
    OutsideUnitInterval(args.window_frac) =>
        /\ pc \in {"process_args", "ValueError"}
        /\ futures = <<>>

\* C7: 'none' is the default evolution mode, and with it no window is planned, no evolution unit is
\* submitted, no evolution array is set up and the output file holds nothing
\* but the overall averages (and the state labels).
C7_NoEvolution ==
    /\ EvolutionModeDefault = "none"
    /\ args.evolution_mode = "none" =>
         /\ EvolUnits = {}
         /\ pc \notin {"evol_submit", "evol_collect", "PlanError"}
         /\ \A ds \in EvolArrays : DOMAIN evol[ds] = {}
         /\ \A d \in file : d.name.base \in {"avg_rates", "avg_conditional_fluxes",
                                             "avg_total_fluxes", "state_labels"}

\* a finished matrix run with mode 'none' that has written its averages
C7_Witness ==
    /\ args.evolution_mode = "none"
    /\ args.subcommand = "matrix"
    /\ self.iter_step > 0
    /\ pc = "done"
    /\ \E d \in file : d.name.base = "avg_rates" /\ d.pairs # {}

\* C8: every state-pair record an estimator computed and the run wrote to a
\* dataset of state-to-state fluxes or rates is for a pair istate # jstate,
\* with both states in [0, nstates).
C8_NoDiagonalEstimate ==
    \A d \in file :
        d.name.base \notin {"block_avg_target_flux", "target_flux_evolution",
                            "avg_total_fluxes", "state_labels"} =>
            \A p \in d.pairs :
                /\ p[1] # p[2]
                /\ p[1] \in States(args.nstates)
                /\ p[2] \in States(args.nstates)

\* C9: the bootstrap blocks of a non-empty window, with stride = corr_len + 1:
\* there is at least one, each is non-empty, the first starts at start_iter,
\* each starts where the one before stops, the last stops at stop_iter, and
\* each has length stride except the last, which is at most stride long.
C9_BlocksPartitionWindow ==
    (ci.pc \in {"resample", "returned"}) =>
        LET stride == ci.ctime + 1
            n      == ci.nblocks
        IN /\ ci.stop_iter > ci.start_iter
           /\ n >= 1
           /\ Len(ci.starts) = n /\ Len(ci.stops) = n
           /\ ci.starts[1] = ci.start_iter
           /\ ci.stops[n] = ci.stop_iter
           /\ \A k \in 1 .. n :
                 /\ ci.starts[k] < ci.stops[k]
                 /\ ci.stops[k] - ci.starts[k] <= stride
                 /\ k < n => /\ ci.stops[k] - ci.starts[k] = stride
                             /\ ci.starts[k + 1] = ci.stops[k]

\* blocks of a window whose length is no multiple of the stride
C9_Witness ==
    /\ ci.pc = "resample"
    /\ ci.nblocks >= 2
    /\ ci.stops[ci.nblocks] - ci.starts[ci.nblocks] < ci.ctime + 1

\* C10: every resample is averaged over at least as many iterations as the
\* window holds: iters_averaged >= stop_iter - start_iter at line 517.
C10_ResampleCoversWindow ==
    (ci.pc \in {"resample", "returned"}) =>
        \A k \in 1 .. Len(ci.set_iters) : ci.set_iters[k] >= ci.stop_iter - ci.start_iter

\* C11: every _calc_ci_block unit that has run used a number of resamples of at
\* least 2/alpha, and did not fail because its upper quantile index lies
\* outside the mcbs_nsets resample values.
C11_ResamplesWidened ==
    \A i \in 1 .. Len(futures) :
        (futures[i].fn = "_calc_ci_block" /\ outcome[i] # Pending) =>
            /\ self.mcbs_nsets * self.mcbs_alpha.num >= 2 * self.mcbs_alpha.den
            /\ ~QuantileRaises(self.mcbs_nsets, self.mcbs_alpha)

\* C12 (as stated): the record _calc_ci_block returns has
\* ci_lbound <= expected <= ci_ubound.
C12_ExpectedWithinBounds ==
    (ci.pc = "returned") =>
        /\ RateLeq(ci.result.ci_lbound, ci.result.expected)
        /\ RateLeq(ci.result.expected, ci.result.ci_ubound)

\* C12 (amended): the record _calc_ci_block returns has ci_lbound <= ci_ubound,
\* the two being the values of rank lbi and ubi (lbi <= ubi) among the
\* mcbs_nsets resample values in ascending order; expected, the rate of the
\* window itself, is not bound to lie between them.
C12_BoundsOrdered ==
    (ci.pc = "returned") =>
        LET lbi == Lbi(ci.mcbs_nsets, ci.mcbs_alpha)
            ubi == Ubi(ci.mcbs_nsets, ci.mcbs_alpha)
        IN /\ Len(ci.synth_rates) = ci.mcbs_nsets
           /\ 0 <= lbi /\ lbi <= ubi /\ ubi < ci.mcbs_nsets
           /\ \A k \in 1 .. (ci.mcbs_nsets - 1) :
                 RateLeq(ci.synth_rates[k], ci.synth_rates[k + 1])
           /\ ci.result.ci_lbound = ci.synth_rates[lbi + 1]
           /\ ci.result.ci_ubound = ci.synth_rates[ubi + 1]
           /\ RateLeq(ci.result.ci_lbound, ci.result.ci_ubound)

\* a returned record whose bounds differ and whose expected value lies above both
C12_Witness ==
    /\ ci.pc = "returned"
    /\ RateLess(ci.result.ci_lbound, ci.result.ci_ubound)
    /\ RateLess(ci.result.ci_ubound, ci.result.expected)

\* C13: the expected value of a returned record, with iter_start and iter_stop,
\* is a function of the stored data of the window alone (the rate of the
\* iterations [start_iter, stop_iter), each taken once): calls that differ in
\* mcbs_nsets, in mcbs_alpha and in every random draw return the same one.
C13_ExpectedOfWindowOnly ==
    (ci.pc = "returned") =>
        /\ ci.result.expected =
               Rate(SumFlux(ci.flux, 0, ci.stop_iter - ci.start_iter),
                    ci.stop_iter - ci.start_iter)
        /\ ci.result.iter_start = ci.start_iter
        /\ ci.result.iter_stop = ci.stop_iter

\* a returned record whose expected value differs from the rate of the last
\* resample and from both bounds
C13_Witness ==
    /\ ci.pc = "returned"
    /\ ci.result.expected # ci.macro_rates
    /\ ci.result.expected # ci.result.ci_lbound
    /\ ci.result.expected # ci.result.ci_ubound
    /\ ci.result.expected.sum > 0

\* C14: the series handed to the correlation-time estimator for the pair
\* (istate, jstate) has stop_iter - start_iter entries, the n-th one being the
\* flux from istate to jstate in iteration start_iter + n.
C14_CorrelSeriesOfPair ==
    (ci.pc \in {"resample", "returned"}) =>
        ci.series = [n \in 1 .. (ci.stop_iter - ci.start_iter) |->
                        MacroFlux(ci.start_iter + n - 1, ci.istate, ci.jstate)]

\* C15: every result dataset of the output file (state_labels is no result)
\* carries the attributes mcbs_alpha, mcbs_acalpha and mcbs_nsets, set to the
\* values the run used.
C15_DatasetsStamped ==
    \A d \in file :
        (d.name.base # "state_labels") =>
            /\ d.stamped
            /\ d.attrs = StampMcbsInfo(self)

\* C16: every unit that returned gave, for each of its records, a value for
\* all eight fields of the record, iter_start and iter_stop being the bounds
\* of the unit's window.
C16_CompleteRecords ==
    \A i \in 1 .. Len(futures) :
        (outcome[i].status = "ok") =>
            \A e \in outcome[i].entries :
                /\ e.ci.given = CIFields
                /\ e.ci.iter_start = futures[i].start
                /\ e.ci.iter_stop = futures[i].stop

\* C17: each unit draws from a generator of its own: between two successive
\* draws of a unit no other unit has advanced the generator it draws from, so
\* its draws are successive outputs of that generator.
C17_OwnGenerator ==
    (ci.pc = "drawing") =>
        \A u \in RNGUnits :
            \A k \in 1 .. (Len(ci.draws[u]) - 1) :
                ci.draws[u][k + 1] = ci.draws[u][k] + 1

\* the off-diagonal state pairs
OffDiagonal == {p \in States(args.nstates) \X States(args.nstates) : p[1] # p[2]}

\* the zero-based indices k of the windows of the requested range: those with
\* start_iter + k*step_iter < stop_iter
WindowIndices ==
    {k \in 0 .. (args.iter_stop - args.iter_start) :
         args.iter_start + k * self.iter_step < args.iter_stop}

\* the evolution units submitted for window k and, in the matrix analysis,
\* for the pair p
UnitsOfWindow(k) == {i \in EvolUnits : futures[i].iblock = k}
UnitsOfPairAndWindow(p, k) ==
    {i \in UnitsOfWindow(k) : futures[i].istate = p[1] /\ futures[i].jstate = p[2]}

C19_DataRangeChecked ==
    (~args.assignments_span \/ ~args.kinetics_span) =>
        /\ pc \in {"process_args", "go", "ValueError"}
        /\ futures = <<>>
        /\ evol = NoArrays
        /\ file = {}

\* a run with valid options that open_files stopped because of the kinetics
\* data alone
C19_Witness ==
    /\ pc = "ValueError"
    /\ ~WindowFracRejected(args.window_frac)
    /\ args.assignments_span
    /\ ~args.kinetics_span

\* the window of every evolution unit begins at start_iter and ends at
\* min(start_iter + (k+1)*step_iter, stop_iter), k being its index; once all
\* units are submitted the last window ends at stop_iter
GrowingFromStart ==
    /\ \A i \in EvolUnits :
          /\ futures[i].start = args.iter_start
          /\ futures[i].stop =
                 Min(args.iter_start + (futures[i].iblock + 1) * self.iter_step,
                     args.iter_stop)
    /\ EvolSubmitted => \E i \in EvolUnits : futures[i].stop = args.iter_stop

BlockAvgReturned ==
    {i \in 1 .. Len(futures) :
         futures[i].fn = "_eval_block_avg" /\ outcome[i].status = "ok"}

\* C21: every record a _eval_block_avg unit returns has ci_lbound = 0 and
\* ci_ubound = 0: the records the unit fills (corr_len being the block size,
\* one more than the first index of the record) and the all-zero records it
\* leaves untouched.
C21_BlockBoundsZero ==
    /\ ZeroRecord.ci_lbound = 0 /\ ZeroRecord.ci_ubound = 0
    /\ \A i \in BlockAvgReturned : \A e \in outcome[i].entries :
          /\ e.ci.ci_lbound = 0
          /\ e.ci.ci_ubound = 0
          /\ e.ci.corr_len = e.iblock + 1
          /\ e.ci.corr_len >= 1

\* a block-averaging unit that returned records for more than one data set
C21_Witness ==
    \E i \in BlockAvgReturned :
        /\ \E e \in outcome[i].entries : e.ds = "rate" /\ e.ci.corr_len = 1
        /\ \E e \in outcome[i].entries : e.ds = "flux"

\* C22: what pare_basis_initial_states returns.  With segments, the initial
\* states are exactly those whose id is the parent of a segment with a
\* generated init point, and the basis states exactly those that are the
\* parent of a segment with a basis init point or the basis state of a
\* returned initial state; without segments, all initial states and exactly
\* their basis states.  In both cases the basis state of every returned
\* initial state is returned, and both sets are subsets of the arguments.
C22_PareExact ==
    (ci.pc = "pared") =>
        LET bs == ci.result.return_bstates
            is == ci.result.return_istates
        IN /\ IF ci.segments.given
              THEN /\ is = {st \in ci.initial_states :
                               \E g \in ci.segments.list :
                                  /\ g.initpoint_type = "SEG_INITPOINT_GENERATED"
                                  /\ g.p_parent_id = st.state_id}
                   /\ bs = {b \in ci.basis_states :
                               \/ \E g \in ci.segments.list :
                                     /\ g.initpoint_type = "SEG_INITPOINT_BASIS"
                                     /\ g.p_parent_id = b.state_id
                               \/ \E st \in is : st.basis_state_id = b.state_id}
              ELSE /\ is = ci.initial_states
                   /\ bs = {b \in ci.basis_states :
                               \E st \in ci.initial_states : st.basis_state_id = b.state_id}
           /\ \A st \in is : \E b \in bs : b.state_id = st.basis_state_id
           /\ bs \subseteq ci.basis_states
           /\ is \subseteq ci.initial_states

\* a call with segments that returns an initial state and, only because of it,
\* a basis state, while leaving out another state of each kind
C22_Witness ==
    /\ ci.pc = "pared"
    /\ ci.segments.given
    /\ ci.result.return_istates # {}
    /\ ci.result.return_istates # ci.initial_states
    /\ ci.result.return_bstates # ci.basis_states
    /\ \E b \in ci.result.return_bstates :
          \A g \in ci.segments.list :
             ~(g.initpoint_type = "SEG_INITPOINT_BASIS" /\ g.p_parent_id = b.state_id)

\* C23: in every call that reaches the resampling loop the quantile indices
\* of lines 487-488 satisfy 0 <= lbi <= ubi <= mcbs_nsets - 1, so that
\* synth_rates[lbi] and synth_rates[ubi] are elements of the mcbs_nsets
\* resample values.
C23_QuantileIndicesInRange ==
    (ci.pc = "resample") =>
        /\ 0 <= Lbi(ci.mcbs_nsets, ci.mcbs_alpha)
        /\ Lbi(ci.mcbs_nsets, ci.mcbs_alpha) <= Ubi(ci.mcbs_nsets, ci.mcbs_alpha)
        /\ Ubi(ci.mcbs_nsets, ci.mcbs_alpha) <= ci.mcbs_nsets - 1

\* the positions n of the as_completed loop at which go() stored a record
\* labelled for slot t
WritesOf(t) ==
    {n \in 1 .. nconsumed :
        \E e \in outcome[completed[n]].entries : <<e.iblock, e.istate, e.jstate>> = t}

\* C24: when the matrix evolution analysis has consumed every unit, each slot
\* (iblock, istate, jstate) with istate # jstate and 0 <= iblock < nwindows was
\* written exactly once, with the record of the unit submitted for that window
\* and pair; each diagonal slot holds the all-zero record; and no result is
\* labelled with an iblock outside 0..nwindows-1.
C24_SlotsWrittenOnce ==
    (pc = "done" /\ args.subcommand = "matrix" /\ EvolUnits # {}) =>
        LET nwin == Cardinality(WindowIndices)
        IN /\ DOMAIN evol.rate =
                  (0 .. (nwin - 1)) \X States(args.nstates) \X States(args.nstates)
           /\ \A t \in DOMAIN evol.rate :
                 IF t[2] # t[3]
                 THEN /\ Cardinality(WritesOf(t)) = 1
                      /\ \A n \in WritesOf(t) :
                            LET i == completed[n]
                            IN /\ <<futures[i].iblock, futures[i].istate,
                                    futures[i].jstate>> = t
                               /\ evol.rate[t].iter_start = futures[i].start
                               /\ evol.rate[t].iter_stop = futures[i].stop
                               /\ evol.rate[t] # ZeroRecord
                 ELSE /\ WritesOf(t) = {}
                      /\ evol.rate[t] = ZeroRecord
           /\ \A i \in EvolUnits : \A e \in outcome[i].entries :
                 0 <= e.iblock /\ e.iblock < nwin

\* a finished matrix evolution of two windows on two states
C24_Witness ==
    /\ pc = "done"
    /\ args.subcommand = "matrix"
    /\ Cardinality(EvolUnits) = 4
    /\ Cardinality(WindowIndices) = 2
    /\ nconsumed = 4

\* the rate_evolution dataset is in the output file, with the attributes of
\* stamp_mcbs_info
RateEvolutionWritten ==
    \E d \in file : d.name.base = "rate_evolution" /\ d.attrs = StampMcbsInfo(self)

\* go() is in the submission loop or in the as_completed loop of the evolution
EvolutionUnderWay == pc \in {"evol_submit", "evol_collect"}

\* C25: rate_evolution is in the output file only when the result of every
\* evolution unit submitted has been consumed (so never while a unit is still
\* running); and once the evolution analysis is under way the dataset is
\* eventually written and stamped, unless a unit fails or the planning of the
\* windows raises.
C25_RateEvolutionWritten ==
    /\ []((\E d \in file : d.name.base = "rate_evolution") =>
             /\ nconsumed = Len(futures)
             /\ \A i \in 1 .. Len(futures) : outcome[i].status = "ok")
    /\ [](EvolutionUnderWay =>
             <>(\/ RateEvolutionWritten
                \/ \E i \in 1 .. Len(futures) : outcome[i].status = "failed"
                \/ pc = "PlanError"))

====
